---- MODULE Spec2Model ----
(***************************************************************************)
(* A model of src/src/api.rs: the LooksRare REST client.                   *)
(*                                                                         *)
(* LooksRareApi holds a reqwest Client and a Network.  get_account and     *)
(* get_orders build a list of query parameters from a typed request, send  *)
(* one GET, read the body, decode the JSON envelope and unwrap `data`.     *)
(*                                                                         *)
(* Text is modelled as a sequence of one-character strings, so that the    *)
(* conversions (decimal, hexadecimal, wire tokens) are computed and can be *)
(* parsed back.  Option<T> is modelled as a sequence of length 0 (None) or *)
(* 1 (Some(x) = <<x>>).                                                    *)
(***************************************************************************)
EXTENDS Integers, Sequences, FiniteSets, TLC

VARIABLES api, active, server, pc, req, query, sent, res, text, result

vars == <<api, active, server, pc, req, query, sent, res, text, result>>

-----------------------------------------------------------------------------
(* Bounds of the model.                                                    *)

\* Number of call slots; the concurrent specification runs all of them.
NCalls == 2
\* Longest status list of a request.
MaxStatus == 2
\* Longest order list in a response.
MaxOrders == 2
\* Largest sample number used for price, start_time and pagination.first.
MaxNum == 26

CallIds == 1..NCalls

-----------------------------------------------------------------------------
(* Option<T>.                                                              *)

None == <<>>
Some(x) == <<x>>
IsSome(o) == Len(o) = 1
unwrap(o) == o[1]

-----------------------------------------------------------------------------
(* Text and the conversions of the dependencies.                           *)

LowerHex == <<"0","1","2","3","4","5","6","7","8","9","a","b","c","d","e","f">>

\* u64::to_string (line 69) and the integer formatting of a JSON number
\* in a query string: decimal, no leading zeros.
RECURSIVE to_string(_)
to_string(n) ==
    IF n < 10 THEN <<LowerHex[n + 1]>>
    ELSE to_string(n \div 10) \o <<LowerHex[(n % 10) + 1]>>

\* The digits of the serde form of U256: hexadecimal, no leading zeros.
RECURSIVE hex_digits(_)
hex_digits(n) ==
    IF n < 16 THEN <<LowerHex[n + 1]>>
    ELSE hex_digits(n \div 16) \o <<LowerHex[(n % 16) + 1]>>

\* The serde form of Address (H160): every byte as two lower-case hex digits.
RECURSIVE hex_bytes(_)
hex_bytes(bs) ==
    IF bs = <<>> THEN <<>>
    ELSE <<LowerHex[(Head(bs) \div 16) + 1], LowerHex[(Head(bs) % 16) + 1]>>
         \o hex_bytes(Tail(bs))

-----------------------------------------------------------------------------
(* serde_json::Value, as far as the requests produce it.                   *)

VBool(b) == [t |-> "Bool", b |-> b]
VNumber(n) == [t |-> "Number", n |-> n]
VString(s) == [t |-> "String", s |-> s]

\* serde_json::to_value of each field type.
to_value_bool(b) == VBool(b)
to_value_u64(n) == VNumber(n)
to_value_string(s) == VString(s)
\* Address serialises as the string "0x" followed by its bytes in hex.
to_value_address(a) == VString(<<"0", "x">> \o hex_bytes(a))
\* U256 serialises as the string "0x" followed by its value in hex.
to_value_u256(n) == VString(<<"0", "x">> \o hex_digits(n))

\* RequestBuilder::query: each value is written as text: a bool as
\* true/false, a number in decimal, a string as it is.  (Null, arrays and
\* objects cannot be written and would fail the request; no push of
\* get_account or get_orders makes one.)  The pairs are taken before
\* percent-encoding.
urlencode_value(v) ==
    CASE v.t = "Bool" -> IF v.b THEN <<"t","r","u","e">> ELSE <<"f","a","l","s","e">>
      [] v.t = "Number" -> to_string(v.n)
      [] v.t = "String" -> v.s

urlencode_pairs(q) == [i \in 1..Len(q) |-> <<q[i][1], urlencode_value(q[i][2])>>]

-----------------------------------------------------------------------------
(* Status and Sort.                                                        *)

Status == {"Cancelled", "Executed", "Expired", "Valid"}
Sort == {"ExpiringSoon", "Newest", "PriceAsc", "PriceDesc"}

\* to_str with the token of one arm copied into the next.
Status_to_str_same_token(v) ==
    CASE v = "Cancelled" -> <<"C","A","N","C","E","L","L","E","D">>
      [] v = "Executed" -> <<"E","X","E","C","U","T","E","D">>
      [] v = "Expired" -> <<"E","X","E","C","U","T","E","D">>
      [] v = "Valid" -> <<"V","A","L","I","D">>

Status_to_str(v) ==
    CASE v = "Cancelled" -> <<"C","A","N","C","E","L","L","E","D">>
      [] v = "Executed" -> <<"E","X","E","C","U","T","E","D">>
      [] v = "Expired" -> <<"E","X","P","I","R","E","D">>
      [] v = "Valid" -> <<"V","A","L","I","D">>

Sort_to_str(v) ==
    CASE v = "ExpiringSoon" -> <<"E","X","P","I","R","I","N","G","_","S","O","O","N">>
      [] v = "Newest" -> <<"N","E","W","E","S","T">>
      [] v = "PriceAsc" -> <<"P","R","I","C","E","_","A","S","C">>
      [] v = "PriceDesc" -> <<"P","R","I","C","E","_","D","E","S","C">>

\* The spelling of a variant's name, which the derived Deserialize reads.
Status_name(v) ==
    CASE v = "Cancelled" -> <<"C","a","n","c","e","l","l","e","d">>
      [] v = "Executed" -> <<"E","x","e","c","u","t","e","d">>
      [] v = "Expired" -> <<"E","x","p","i","r","e","d">>
      [] v = "Valid" -> <<"V","a","l","i","d">>

Sort_name(v) ==
    CASE v = "ExpiringSoon" -> <<"E","x","p","i","r","i","n","g","S","o","o","n">>
      [] v = "Newest" -> <<"N","e","w","e","s","t">>
      [] v = "PriceAsc" -> <<"P","r","i","c","e","A","s","c">>
      [] v = "PriceDesc" -> <<"P","r","i","c","e","D","e","s","c">>

\* #[derive(Deserialize)] on a unit-variant enum: a string is accepted when
\* it is the name of a variant, and is an error otherwise.
Status_deserialize(s) ==
    IF \E v \in Status : Status_name(v) = s
    THEN [t |-> "Ok", v |-> CHOOSE v \in Status : Status_name(v) = s]
    ELSE [t |-> "Err"]

Sort_deserialize(s) ==
    IF \E v \in Sort : Sort_name(v) = s
    THEN [t |-> "Ok", v |-> CHOOSE v \in Sort : Sort_name(v) = s]
    ELSE [t |-> "Err"]

-----------------------------------------------------------------------------
(* The query of get_orders, lines 48-77.                                   *)

\* Lines 50-58: one push per present scalar filter.
scalar_pairs(r) ==
       (IF IsSome(r.is_order_ask)
        THEN << <<"isOrderAsk", to_value_bool(unwrap(r.is_order_ask))>> >> ELSE <<>>)
    \o (IF IsSome(r.collection)
        THEN << <<"collection", to_value_address(unwrap(r.collection))>> >> ELSE <<>>)
    \o (IF IsSome(r.token_id)
        THEN << <<"tokenId", to_value_string(unwrap(r.token_id))>> >> ELSE <<>>)
    \o (IF IsSome(r.signer)
        THEN << <<"signer", to_value_address(unwrap(r.signer))>> >> ELSE <<>>)
    \o (IF IsSome(r.nonce)
        THEN << <<"nonce", to_value_string(unwrap(r.nonce))>> >> ELSE <<>>)
    \o (IF IsSome(r.strategy)
        THEN << <<"strategy", to_value_address(unwrap(r.strategy))>> >> ELSE <<>>)
    \o (IF IsSome(r.currency)
        THEN << <<"currency", to_value_address(unwrap(r.currency))>> >> ELSE <<>>)
    \o (IF IsSome(r.price)
        THEN << <<"price", to_value_u256(unwrap(r.price))>> >> ELSE <<>>)
    \o (IF IsSome(r.start_time)
        THEN << <<"startTime", to_value_u64(unwrap(r.start_time))>> >> ELSE <<>>)

\* The status loop run from the last element to the first.
status_pairs_reversed(r) ==
    IF IsSome(r.status)
    THEN [i \in 1..Len(unwrap(r.status)) |->
            <<"status[]",
              to_value_string(Status_to_str(
                  unwrap(r.status)[Len(unwrap(r.status)) + 1 - i]))>>]
    ELSE <<>>

\* Lines 60-62: one push per element of a present status list, in order.
status_pairs(r) ==
    IF IsSome(r.status)
    THEN [i \in 1..Len(unwrap(r.status)) |->
            <<"status[]", to_value_string(Status_to_str(unwrap(r.status)[i]))>>]
    ELSE <<>>

\* The cursor test nested inside the test of first.
pagination_pairs_nested(r) ==
    IF IsSome(r.pagination)
    THEN IF IsSome(unwrap(r.pagination).first)
         THEN << <<"pagination[first]",
                   to_value_string(to_string(unwrap(unwrap(r.pagination).first)))>> >>
              \o (IF IsSome(unwrap(r.pagination).cursor)
                  THEN << <<"pagination[cursor]",
                            to_value_string(unwrap(unwrap(r.pagination).cursor))>> >>
                  ELSE <<>>)
         ELSE <<>>
    ELSE <<>>

\* Lines 64-75: first and cursor, each under its own test.
pagination_pairs(r) ==
    IF IsSome(r.pagination)
    THEN (IF IsSome(unwrap(r.pagination).first)
          THEN << <<"pagination[first]",
                    to_value_string(to_string(unwrap(unwrap(r.pagination).first)))>> >>
          ELSE <<>>)
      \o (IF IsSome(unwrap(r.pagination).cursor)
          THEN << <<"pagination[cursor]",
                    to_value_string(unwrap(unwrap(r.pagination).cursor))>> >>
          ELSE <<>>)
    ELSE <<>>

\* The sort push without its test, a default standing in for None.
sort_pairs_always(r) ==
    << <<"sort", to_value_string(
            IF IsSome(r.sort) THEN Sort_to_str(unwrap(r.sort))
            ELSE Sort_to_str("Newest"))>> >>

\* Line 77.
sort_pairs(r) ==
    IF IsSome(r.sort)
    THEN << <<"sort", to_value_string(Sort_to_str(unwrap(r.sort)))>> >>
    ELSE <<>>

\* The sort statement placed before the status loop.
get_orders_query_sort_first(r) ==
    scalar_pairs(r) \o sort_pairs(r) \o status_pairs(r) \o pagination_pairs(r)

\* Lines 48-77: the pushes in the order of the statements.
get_orders_query(r) ==
    scalar_pairs(r) \o status_pairs(r) \o pagination_pairs(r) \o sort_pairs(r)

\* Lines 30-31: the one-entry map of get_account.
get_account_query(r) == << <<"address", to_value_address(r.address)>> >>

-----------------------------------------------------------------------------
(* Requests.                                                               *)

\* Sample addresses: the first two bytes of the addresses of the tests
\* (an Address has 20 bytes).
AddrA == <<61, 103>>
AddrX == <<52, 216>>
AddrY == <<158, 105>>
AddrZ == <<87, 154>>

Token62962 == <<"6","2","9","6","2">>
Nonce17832 == <<"1","7","8","3","2">>
CursorAbc == <<"a","b","c">>

NumVals == {0, 4, MaxNum}

Opt(S) == {None} \cup {Some(x) : x \in S}

SeqUpTo(S, n) == UNION {[1..k -> S] : k \in 0..n}

AccountRequest(a) == [op |-> "account", address |-> a]

Pagination == [first : Opt(NumVals), cursor : Opt({CursorAbc})]

NoScalars ==
    [is_order_ask |-> None, collection |-> None, token_id |-> None,
     signer |-> None, nonce |-> None, strategy |-> None, currency |-> None,
     price |-> None, start_time |-> None]

\* The scalar filters of tests::can_get_orders.
TestScalars ==
    [is_order_ask |-> Some(TRUE), collection |-> Some(AddrX),
     token_id |-> Some(Token62962), signer |-> Some(AddrY),
     nonce |-> Some(Nonce17832), strategy |-> Some(AddrZ), currency |-> None,
     price |-> None, start_time |-> None]

AllScalars ==
    [is_order_ask : Opt(BOOLEAN), collection : Opt({AddrX, AddrY}),
     token_id : Opt({Token62962}), signer : Opt({AddrY}),
     nonce : Opt({Nonce17832}), strategy : Opt({AddrZ}),
     currency : Opt({AddrX}), price : Opt(NumVals),
     start_time : Opt({0, MaxNum})]

NoComposites == [status |-> None, pagination |-> None, sort |-> None]

\* The composite filters of tests::can_get_orders.
TestComposites ==
    [status |-> Some(<<"Cancelled">>),
     pagination |-> Some([first |-> Some(4), cursor |-> None]),
     sort |-> Some("Newest")]

AllComposites ==
    [status : Opt(SeqUpTo(Status, MaxStatus)), pagination : Opt(Pagination),
     sort : Opt(Sort)]

OrdersRequest(s, k) ==
    [op |-> "orders",
     is_order_ask |-> s.is_order_ask, collection |-> s.collection,
     token_id |-> s.token_id, signer |-> s.signer, nonce |-> s.nonce,
     strategy |-> s.strategy, currency |-> s.currency, price |-> s.price,
     start_time |-> s.start_time,
     status |-> k.status, pagination |-> k.pagination, sort |-> k.sort]

\* The requests of the three tests.
TestAccountRequest == AccountRequest(AddrA)
TestOrdersRequest == OrdersRequest(TestScalars, TestComposites)
TestPaginationRequest ==
    OrdersRequest(NoScalars,
                  [status |-> None,
                   pagination |-> Some([first |-> Some(4), cursor |-> None]),
                   sort |-> None])

\* Every combination of the scalar filters with two settings of the
\* composite ones, and every combination of the composite filters with two
\* settings of the scalar ones.
WideOrdersRequests ==
         {OrdersRequest(s, k) : s \in AllScalars, k \in {NoComposites, TestComposites}}
    \cup {OrdersRequest(s, k) : s \in {NoScalars, TestScalars}, k \in AllComposites}

NarrowRequests == {TestAccountRequest, TestOrdersRequest, TestPaginationRequest}

NoRequest == [op |-> "none"]

-----------------------------------------------------------------------------
(* Response bodies and their decoding.                                     *)

JMissing == [t |-> "missing"]
JNull == [t |-> "null"]
JBool(b) == [t |-> "bool", v |-> b]
JString(s) == [t |-> "string", v |-> s]
JNumber(n) == [t |-> "number", v |-> n]
JAccount(a) == [t |-> "account", v |-> a]
JOrders(os) == [t |-> "orders", v |-> os]

\* An Account and an Order, as far as this file reads them.
Accounts == {[address |-> AddrA], [address |-> AddrX]}
Orders == {[id |-> "o1"], [id |-> "o2"]}

\* A body that is no JSON object at all.
Garbage == [json |-> FALSE]

Envelopes(S, M, D) == [json : {TRUE}, success : S, message : M, data : D]

MsgText == <<"m","s","g">>

WideAccountBodies ==
    {Garbage} \cup
    Envelopes({JMissing, JBool(TRUE), JBool(FALSE)},
              {JMissing, JNull, JString(MsgText)},
              {JMissing, JNull, JNumber(0)} \cup {JAccount(a) : a \in Accounts})

WideOrdersBodies ==
    {Garbage} \cup
    Envelopes({JMissing, JBool(TRUE), JBool(FALSE)},
              {JMissing, JNull, JString(MsgText)},
              {JMissing, JNull, JNumber(0)}
                  \cup {JOrders(os) : os \in SeqUpTo(Orders, MaxOrders)})

NarrowAccountBodies ==
    {Garbage} \cup
    Envelopes({JBool(TRUE)}, {JMissing}, {JNull, JAccount([address |-> AddrA])})

NarrowOrdersBodies ==
    {Garbage} \cup
    Envelopes({JBool(TRUE)}, {JMissing},
              {JNull, JOrders(<<[id |-> "o1"], [id |-> "o2"]>>)})

\* The status codes the server answers with.
HttpStatus == {200, 404}

Ok(v) == [t |-> "Ok", v |-> v]
Err(e) == [t |-> "Err", e |-> e]

\* Option<T> of a field: missing and null are None.
option_field(j) == IF j.t \in {"missing", "null"} THEN None ELSE Some(j.v)

\* serde_json::from_str::<AccountResponse>: `success` is required and a
\* bool, `message` and `data` are optional.
from_str_AccountResponse(body) ==
    IF ~body.json THEN Err([kind |-> "SerdeJson"])
    ELSE IF body.success.t # "bool" THEN Err([kind |-> "SerdeJson"])
    ELSE IF body.message.t \notin {"missing", "null", "string"}
         THEN Err([kind |-> "SerdeJson"])
    ELSE IF body.data.t \notin {"missing", "null", "account"}
         THEN Err([kind |-> "SerdeJson"])
    ELSE Ok([success |-> body.success.v, message |-> option_field(body.message),
             data |-> option_field(body.data)])

from_str_OrdersResponse(body) ==
    IF ~body.json THEN Err([kind |-> "SerdeJson"])
    ELSE IF body.success.t # "bool" THEN Err([kind |-> "SerdeJson"])
    ELSE IF body.message.t \notin {"missing", "null", "string"}
         THEN Err([kind |-> "SerdeJson"])
    ELSE IF body.data.t \notin {"missing", "null", "orders"}
         THEN Err([kind |-> "SerdeJson"])
    ELSE Ok([success |-> body.success.v, message |-> option_field(body.message),
             data |-> option_field(body.data)])

\* The unwrapping made to depend on `success` as well.
get_account_result_by_success(r, body) ==
    LET resp == from_str_AccountResponse(body) IN
    IF resp.t = "Err" THEN resp
    ELSE IF resp.v.success /\ IsSome(resp.v.data) THEN Ok(unwrap(resp.v.data))
    ELSE Err([kind |-> "AccountNotFound", address |-> r.address])

\* Lines 35-40: decode, then data or AccountNotFound.
get_account_result(r, body) ==
    LET resp == from_str_AccountResponse(body) IN
    IF resp.t = "Err" THEN resp
    ELSE IF IsSome(resp.v.data) THEN Ok(unwrap(resp.v.data))
    ELSE Err([kind |-> "AccountNotFound", address |-> r.address])

\* The unwrapping with an empty list treated as no data.
get_orders_result_empty_not_found(r, body) ==
    LET resp == from_str_OrdersResponse(body) IN
    IF resp.t = "Err" THEN resp
    ELSE IF IsSome(resp.v.data) /\ unwrap(resp.v.data) # <<>>
         THEN Ok(unwrap(resp.v.data))
    ELSE Err([kind |-> "OrdersNotFound"])

\* Lines 82-85: decode, then data or OrdersNotFound.
get_orders_result(r, body) ==
    LET resp == from_str_OrdersResponse(body) IN
    IF resp.t = "Err" THEN resp
    ELSE IF IsSome(resp.v.data) THEN Ok(unwrap(resp.v.data))
    ELSE Err([kind |-> "OrdersNotFound"])

-----------------------------------------------------------------------------
(* The client.                                                             *)

\* Network::api: the base URL of the network.
Network_api(n) == <<"api", n>>

\* LooksRareApi::new.
new == [client |-> "Client", network |-> "Mainnet"]

InitCalls ==
    /\ api = new
    /\ pc = [c \in CallIds |-> "start"]
    /\ query = [c \in CallIds |-> <<>>]
    /\ sent = [c \in CallIds |-> <<>>]
    /\ res = [c \in CallIds |-> None]
    /\ text = [c \in CallIds |-> None]
    /\ result = [c \in CallIds |-> None]

\* One call at a time, the server answering with any body.
Init ==
    /\ InitCalls
    /\ active = {1}
    /\ server = [accounts |-> WideAccountBodies, orders |-> WideOrdersBodies]
    /\ \E r \in NarrowRequests \cup {AccountRequest(AddrX)} :
          req = [c \in CallIds |-> IF c = 1 THEN r ELSE NoRequest]

\* One call with any request of the wide set.
InitEnc ==
    /\ InitCalls
    /\ active = {1}
    /\ server = [accounts |-> NarrowAccountBodies, orders |-> NarrowOrdersBodies]
    /\ \E r \in WideOrdersRequests \cup {TestAccountRequest} :
          req = [c \in CallIds |-> IF c = 1 THEN r ELSE NoRequest]

\* Every call slot in use, the calls running concurrently.
InitConc ==
    /\ InitCalls
    /\ active = CallIds
    /\ server = [accounts |-> NarrowAccountBodies, orders |-> NarrowOrdersBodies]
    /\ req \in [CallIds -> NarrowRequests]

\* Lines 28-33, up to the await of send(): the query is built and the GET
\* is handed to the transport.
get_account_send(c) ==
    /\ pc[c] = "start"
    /\ req[c].op = "account"
    /\ query' = [query EXCEPT ![c] = get_account_query(req[c])]
    /\ sent' = [sent EXCEPT ![c] =
                  Append(@, [url |-> <<Network_api(api.network), "/accounts">>,
                             params |-> urlencode_pairs(get_account_query(req[c]))])]
    /\ pc' = [pc EXCEPT ![c] = "send"]
    /\ UNCHANGED <<api, active, server, req, res, text, result>>

\* Lines 44-79, up to the await of send().
get_orders_send(c) ==
    /\ pc[c] = "start"
    /\ req[c].op = "orders"
    /\ query' = [query EXCEPT ![c] = get_orders_query(req[c])]
    /\ sent' = [sent EXCEPT ![c] =
                  Append(@, [url |-> <<Network_api(api.network), "/orders">>,
                             params |-> urlencode_pairs(get_orders_query(req[c]))])]
    /\ pc' = [pc EXCEPT ![c] = "send"]
    /\ UNCHANGED <<api, active, server, req, res, text, result>>

\* A failed send() that starts the call again instead of returning.
send_err_retry(c) ==
    /\ pc[c] = "send"
    /\ Len(sent[c]) < 3
    /\ pc' = [pc EXCEPT ![c] = "start"]
    /\ UNCHANGED <<api, active, server, req, query, sent, res, text, result>>

\* Lines 33 and 79: send().await fails and `?` returns the error.
send_err(c) ==
    /\ pc[c] = "send"
    /\ result' = [result EXCEPT ![c] = Some(Err([kind |-> "Reqwest"]))]
    /\ pc' = [pc EXCEPT ![c] = "done"]
    /\ UNCHANGED <<api, active, server, req, query, sent, res, text>>

\* Lines 33 and 79: send().await gives the response, whatever its status
\* (error_for_status is not called); text() is awaited.
send_ok(c) ==
    /\ pc[c] = "send"
    /\ \E s \in HttpStatus : res' = [res EXCEPT ![c] = Some([status |-> s])]
    /\ pc' = [pc EXCEPT ![c] = "text"]
    /\ UNCHANGED <<api, active, server, req, query, sent, text, result>>

\* Lines 34 and 80: text().await fails and `?` returns the error.
text_err(c) ==
    /\ pc[c] = "text"
    /\ result' = [result EXCEPT ![c] = Some(Err([kind |-> "Reqwest"]))]
    /\ pc' = [pc EXCEPT ![c] = "done"]
    /\ UNCHANGED <<api, active, server, req, query, sent, res, text>>

\* Lines 34-40: the body arrives, is decoded and unwrapped.
get_account_text(c) ==
    /\ pc[c] = "text"
    /\ req[c].op = "account"
    /\ \E body \in server.accounts :
          /\ text' = [text EXCEPT ![c] = Some(body)]
          /\ result' = [result EXCEPT ![c] =
                          Some(get_account_result(req[c], unwrap(text'[c])))]
    /\ pc' = [pc EXCEPT ![c] = "done"]
    /\ UNCHANGED <<api, active, server, req, query, sent, res>>

\* The body kept in one buffer shared by the calls instead of a local.
get_orders_text_shared(c) ==
    /\ pc[c] = "text"
    /\ req[c].op = "orders"
    /\ \E body \in server.orders :
          /\ text' = [text EXCEPT ![1] = Some(body)]
          /\ result' = [result EXCEPT ![c] =
                          Some(get_orders_result(req[c], unwrap(text'[1])))]
    /\ pc' = [pc EXCEPT ![c] = "done"]
    /\ UNCHANGED <<api, active, server, req, query, sent, res>>

\* Lines 80-85: the body arrives, is decoded and unwrapped.
get_orders_text(c) ==
    /\ pc[c] = "text"
    /\ req[c].op = "orders"
    /\ \E body \in server.orders :
          /\ text' = [text EXCEPT ![c] = Some(body)]
          /\ result' = [result EXCEPT ![c] =
                          Some(get_orders_result(req[c], unwrap(text'[c])))]
    /\ pc' = [pc EXCEPT ![c] = "done"]
    /\ UNCHANGED <<api, active, server, req, query, sent, res>>

Next ==
    \/ \E c \in active : get_account_send(c)
    \/ \E c \in active : get_orders_send(c)
    \/ \E c \in active : send_err(c)
    \/ \E c \in active : send_ok(c)
    \/ \E c \in active : text_err(c)
    \/ \E c \in active : get_account_text(c)
    \/ \E c \in active : get_orders_text(c)

Spec == Init /\ [][Next]_vars
SpecEnc == InitEnc /\ [][Next]_vars
SpecConc == InitConc /\ [][Next]_vars

-----------------------------------------------------------------------------
(* Vocabulary of the properties.                                           *)

\* The calls to get_orders that have built and sent their query.
SentOrders == {c \in active : req[c].op = "orders" /\ pc[c] # "start"}

\* The pairs call c sent and the list it built.
Params(c) == sent[c][1].params

Count(ps, k) == Cardinality({i \in 1..Len(ps) : ps[i][1] = k})

\* The values of the pairs keyed k, in the order of the pairs.
RECURSIVE ValuesOf(_, _)
ValuesOf(ps, k) ==
    IF ps = <<>> THEN <<>>
    ELSE (IF Head(ps)[1] = k THEN <<Head(ps)[2]>> ELSE <<>>) \o ValuesOf(Tail(ps), k)

ScalarKeys ==
    {"isOrderAsk", "collection", "tokenId", "signer", "nonce", "strategy",
     "currency", "price", "startTime"}

WireKeys ==
    ScalarKeys \cup {"status[]", "pagination[first]", "pagination[cursor]", "sort"}

\* The scalar field a wire key belongs to.
FieldOf(r, k) ==
    CASE k = "isOrderAsk" -> r.is_order_ask
      [] k = "collection" -> r.collection
      [] k = "tokenId" -> r.token_id
      [] k = "signer" -> r.signer
      [] k = "nonce" -> r.nonce
      [] k = "strategy" -> r.strategy
      [] k = "currency" -> r.currency
      [] k = "price" -> r.price
      [] k = "startTime" -> r.start_time

\* The number of pairs a request owes under key k.
Owed(r, k) ==
    CASE k \in ScalarKeys -> Len(FieldOf(r, k))
      [] k = "status[]" -> IF IsSome(r.status) THEN Len(unwrap(r.status)) ELSE 0
      [] k = "pagination[first]" ->
            IF IsSome(r.pagination) THEN Len(unwrap(r.pagination).first) ELSE 0
      [] k = "pagination[cursor]" ->
            IF IsSome(r.pagination) THEN Len(unwrap(r.pagination).cursor) ELSE 0
      [] k = "sort" -> Len(r.sort)

\* The position of a key in the declaration order of OrdersRequest.
Rank(k) ==
    CASE k = "isOrderAsk" -> 1
      [] k = "collection" -> 2
      [] k = "tokenId" -> 3
      [] k = "signer" -> 4
      [] k = "nonce" -> 5
      [] k = "strategy" -> 6
      [] k = "currency" -> 7
      [] k = "price" -> 8
      [] k = "startTime" -> 9
      [] k = "status[]" -> 10
      [] k = "pagination[first]" -> 11
      [] k = "pagination[cursor]" -> 12
      [] k = "sort" -> 13

\* Reading a text back as a number.
DigitChars == <<"0","1","2","3","4","5","6","7","8","9">>
HexChars ==
    <<"0","1","2","3","4","5","6","7","8","9","a","b","c","d","e","f",
      "A","B","C","D","E","F">>

DigitVal(ch) == (CHOOSE i \in 1..10 : DigitChars[i] = ch) - 1
HexVal(ch) ==
    LET i == CHOOSE j \in 1..22 : HexChars[j] = ch IN IF i > 16 THEN i - 7 ELSE i - 1

IsDigit(ch) == \E i \in 1..10 : DigitChars[i] = ch
IsHexChar(ch) == \E i \in 1..22 : HexChars[i] = ch

RECURSIVE ParseDecimal(_)
ParseDecimal(t) ==
    IF t = <<>> THEN 0
    ELSE 10 * ParseDecimal(SubSeq(t, 1, Len(t) - 1)) + DigitVal(t[Len(t)])

\* t is the decimal numeral of n.
IsDecimalOf(t, n) ==
    /\ Len(t) >= 1
    /\ \A i \in 1..Len(t) : IsDigit(t[i])
    /\ Len(t) > 1 => t[1] # "0"
    /\ ParseDecimal(t) = n

\* t is "0x" followed by the bytes bs, two hex digits each.
IsHexOfBytes(t, bs) ==
    /\ Len(t) = 2 + 2 * Len(bs)
    /\ t[1] = "0" /\ t[2] = "x"
    /\ \A i \in 3..Len(t) : IsHexChar(t[i])
    /\ \A i \in 1..Len(bs) :
          16 * HexVal(t[2 * i + 1]) + HexVal(t[2 * i + 2]) = bs[i]

NoFilters(r) == \A k \in WireKeys : Owed(r, k) = 0

-----------------------------------------------------------------------------
(* The properties.                                                         *)

\* C1: the pairs get_orders sends are exactly the pairs owed to the present
\* fields: under every wire key as many pairs as the request owes, no pair
\* under any other key; a request with every field absent sends no pair,
\* and the request of tests::can_get_orders sends its nine pairs.
C1_ExactlyOwedPairs ==
    \A c \in SentOrders :
        /\ Len(sent[c]) = 1
        /\ Len(query[c]) = Len(Params(c))
        /\ \A i \in 1..Len(Params(c)) :
              Params(c)[i][1] \in WireKeys /\ query[c][i][1] = Params(c)[i][1]
        /\ \A k \in WireKeys : Count(Params(c), k) = Owed(req[c], k)
        /\ NoFilters(req[c]) => Params(c) = <<>>
        /\ req[c] = TestOrdersRequest =>
              /\ Len(Params(c)) = 9
              /\ {Params(c)[i] : i \in 1..9} =
                    {<<"isOrderAsk", <<"t","r","u","e">> >>,
                     <<"collection", <<"0","x","3","4","d","8">> >>,
                     <<"tokenId", <<"6","2","9","6","2">> >>,
                     <<"signer", <<"0","x","9","e","6","9">> >>,
                     <<"nonce", <<"1","7","8","3","2">> >>,
                     <<"strategy", <<"0","x","5","7","9","a">> >>,
                     <<"status[]", <<"C","A","N","C","E","L","L","E","D">> >>,
                     <<"pagination[first]", <<"4">> >>,
                     <<"sort", <<"N","E","W","E","S","T">> >>}

C1_Witness ==
    \E c \in SentOrders : req[c] = TestOrdersRequest /\ Len(Params(c)) = 9

\* C2: a present status list gives one status[] pair per element, the
\* value the element's wire token, in the order of the list, duplicates
\* kept; an empty list gives none and the call sends what it sends with
\* the status field absent.
C2_StatusPairsInOrder ==
    \A c \in SentOrders :
        IsSome(req[c].status) =>
            /\ ValuesOf(Params(c), "status[]") =
                  [i \in 1..Len(unwrap(req[c].status)) |->
                      Status_to_str(unwrap(req[c].status)[i])]
            /\ unwrap(req[c].status) = <<>> =>
                  /\ Count(Params(c), "status[]") = 0
                  /\ Params(c) =
                        urlencode_pairs(get_orders_query([req[c] EXCEPT !.status = None]))

C2_Witness ==
    \E c \in SentOrders :
        /\ req[c].status = Some(<<"Expired", "Cancelled">>)
        /\ ValuesOf(Params(c), "status[]") =
              << <<"E","X","P","I","R","E","D">>,
                 <<"C","A","N","C","E","L","L","E","D">> >>

\* C3: pagination[first] is sent exactly when pagination is present and
\* its first is set, with the decimal numeral of first as value;
\* pagination[cursor] exactly when pagination is present and its cursor is
\* set, with the cursor as value; neither depends on the other.
C3_PaginationIndependent ==
    \A c \in SentOrders :
        LET p == req[c].pagination
            hasFirst == IsSome(p) /\ IsSome(unwrap(p).first)
            hasCursor == IsSome(p) /\ IsSome(unwrap(p).cursor)
        IN  /\ Count(Params(c), "pagination[first]") = (IF hasFirst THEN 1 ELSE 0)
            /\ Count(Params(c), "pagination[cursor]") = (IF hasCursor THEN 1 ELSE 0)
            /\ hasFirst =>
                  IsDecimalOf(ValuesOf(Params(c), "pagination[first]")[1],
                              unwrap(unwrap(p).first))
            /\ hasCursor =>
                  ValuesOf(Params(c), "pagination[cursor]")[1] = unwrap(unwrap(p).cursor)

C3_Witness ==
    \E c \in SentOrders :
        /\ req[c] = TestPaginationRequest
        /\ Params(c) = << <<"pagination[first]", <<"4">> >> >>

\* C4: when the body of get_account decodes as an envelope, the outcome is
\* decided by `data` alone: absent (null or missing), AccountNotFound with
\* the address of the request; present, that Account.
C4_AccountByDataAlone ==
    \A c \in active :
        (/\ req[c].op = "account"
         /\ pc[c] = "done"
         /\ IsSome(text[c])
         /\ from_str_AccountResponse(unwrap(text[c])).t = "Ok") =>
            LET body == unwrap(text[c]) IN
            IF body.data.t \in {"missing", "null"}
            THEN result[c] =
                    Some(Err([kind |-> "AccountNotFound", address |-> req[c].address]))
            ELSE result[c] = Some(Ok(body.data.v))

C4_Witness ==
    \E c \in active :
        /\ req[c].op = "account"
        /\ pc[c] = "done"
        /\ IsSome(text[c])
        /\ unwrap(text[c]).json
        /\ unwrap(text[c]).success = JBool(FALSE)
        /\ unwrap(text[c]).message = JString(MsgText)
        /\ unwrap(text[c]).data = JAccount([address |-> AddrX])
        /\ req[c].address = AddrA
        /\ result[c] = Some(Ok([address |-> AddrX]))

\* C5: when the body of get_orders decodes as an envelope, the call fails
\* with OrdersNotFound exactly when `data` is absent; a list of N orders,
\* the empty one too, is returned as it is.
C5_OrdersByDataAlone ==
    \A c \in active :
        (/\ req[c].op = "orders"
         /\ pc[c] = "done"
         /\ IsSome(text[c])
         /\ from_str_OrdersResponse(unwrap(text[c])).t = "Ok") =>
            LET body == unwrap(text[c]) IN
            /\ result[c] = Some(Err([kind |-> "OrdersNotFound"]))
                   <=> body.data.t \in {"missing", "null"}
            /\ body.data.t = "orders" =>
                  /\ unwrap(result[c]).t = "Ok"
                  /\ Len(unwrap(result[c]).v) = Len(body.data.v)
                  /\ \A i \in 1..Len(body.data.v) :
                        unwrap(result[c]).v[i] = body.data.v[i]

C5_Witness ==
    \E c \in active :
        /\ req[c].op = "orders"
        /\ pc[c] = "done"
        /\ IsSome(text[c])
        /\ unwrap(text[c]).json
        /\ unwrap(text[c]).success = JBool(FALSE)
        /\ unwrap(text[c]).data = JOrders(<<[id |-> "o2"], [id |-> "o1"]>>)
        /\ result[c] = Some(Ok(<<[id |-> "o2"], [id |-> "o1"]>>))

\* The kinds of outcome a call of each operation can end in.
ErrorKinds(op) ==
    {"Reqwest", "SerdeJson"} \cup
    (IF op = "account" THEN {"AccountNotFound"} ELSE {"OrdersNotFound"})

DecodesOk(c) ==
    /\ IsSome(text[c])
    /\ IF req[c].op = "account"
       THEN from_str_AccountResponse(unwrap(text[c])).t = "Ok"
       ELSE from_str_OrdersResponse(unwrap(text[c])).t = "Ok"

\* What holds of a call in every state: at most one GET; an outcome exactly
\* when the call is over, and one of the kinds of its operation; a
\* not-found error and a payload only after the request was sent, the
\* response and its body received and the envelope decoded.
OneOutcomeNow(c) ==
    /\ Len(sent[c]) <= 1
    /\ IsSome(result[c]) <=> pc[c] = "done"
    /\ IsSome(result[c]) =>
          LET r == unwrap(result[c]) IN
          /\ r.t \in {"Ok", "Err"}
          /\ r.t = "Err" => r.e.kind \in ErrorKinds(req[c].op)
          /\ (r.t = "Ok" \/ r.e.kind \in {"AccountNotFound", "OrdersNotFound"}) =>
                Len(sent[c]) = 1 /\ IsSome(res[c]) /\ DecodesOk(c)
          /\ (r.t = "Err" /\ r.e.kind = "SerdeJson") =>
                Len(sent[c]) = 1 /\ IsSome(text[c]) /\ ~DecodesOk(c)
          /\ (r.t = "Err" /\ r.e.kind = "Reqwest") =>
                Len(sent[c]) = 1 /\ text[c] = None

\* What holds of every step: a call that is over stays over, with the
\* outcome it has, and sends nothing more.
OutcomeIsFinal(c) ==
    pc[c] = "done" =>
        pc'[c] = "done" /\ result'[c] = result[c] /\ sent'[c] = sent[c]

\* C6: every call sends at most one GET and ends in exactly one outcome:
\* the payload, a transport error, a decode error or the not-found error of
\* its endpoint; a failure is the outcome as it is, with no second
\* request; not-found comes only after the envelope was decoded.
C6_OneGetOneOutcome ==
    /\ [](\A c \in active : OneOutcomeNow(c))
    /\ [][\A c \in active : OutcomeIsFinal(c)]_vars

C6_Witness ==
    \E c \in active :
        /\ pc[c] = "done"
        /\ Len(sent[c]) = 1
        /\ IsSome(res[c])
        /\ text[c] = None
        /\ result[c] = Some(Err([kind |-> "Reqwest"]))

\* What a call sends and returns when it runs alone.
AloneParams(r) ==
    IF r.op = "account" THEN urlencode_pairs(get_account_query(r))
    ELSE urlencode_pairs(get_orders_query(r))

AloneResult(r, body) ==
    IF r.op = "account" THEN get_account_result(r, body)
    ELSE get_orders_result(r, body)

\* The state of one call.
Locals(c) == <<pc[c], req[c], query[c], sent[c], res[c], text[c], result[c]>>

IndependentNow(c) ==
    /\ pc[c] # "start" => Len(sent[c]) = 1 /\ Params(c) = AloneParams(req[c])
    /\ pc[c] = "done" =>
          /\ IsSome(result[c])
          /\ IF IsSome(text[c])
             THEN unwrap(result[c]) = AloneResult(req[c], unwrap(text[c]))
             ELSE unwrap(result[c]) = Err([kind |-> "Reqwest"])
    /\ (pc[c] = "done" /\ IsSome(res[c]) /\ text[c] = None) =>
          unwrap(result[c]) = Err([kind |-> "Reqwest"])
    /\ (IsSome(text[c]) \/ IsSome(result[c])) => pc[c] = "done"

\* C7: with the calls interleaved in any way, each call sends what it
\* sends alone and returns what it returns alone for the body it received;
\* a step changes the state of one call only, and never the client's
\* network or transport handle.
C7_CallsIndependent ==
    /\ [](api = new /\ \A c \in active : IndependentNow(c))
    /\ [][/\ api' = api
          /\ \E c \in active : \A d \in CallIds \ {c} : Locals(d)' = Locals(d)]_vars

C7_Witness ==
    /\ active = CallIds
    /\ req[1] = TestOrdersRequest
    /\ req[2] = TestPaginationRequest
    /\ pc[1] = "text"
    /\ pc[2] = "done"
    /\ result[2] = Some(Ok(<<[id |-> "o1"], [id |-> "o2"]>>))

\* C8: the pairs are sent in the declaration order of the fields of
\* OrdersRequest: the keys never step back in that order, in the list built
\* and in the pairs sent.
C8_DeclarationOrder ==
    \A c \in SentOrders :
        \A i, j \in 1..Len(Params(c)) :
            i < j =>
                /\ Rank(Params(c)[i][1]) <= Rank(Params(c)[j][1])
                /\ Rank(query[c][i][1]) <= Rank(query[c][j][1])

C8_Witness ==
    \E c \in SentOrders :
        /\ req[c] = TestOrdersRequest
        /\ [i \in 1..Len(Params(c)) |-> Params(c)[i][1]] =
              <<"isOrderAsk", "collection", "tokenId", "signer", "nonce",
                "strategy", "status[]", "pagination[first]", "sort">>

\* The wire tokens, as the specification lists them.
StatusTokens ==
    [Cancelled |-> <<"C","A","N","C","E","L","L","E","D">>,
     Executed |-> <<"E","X","E","C","U","T","E","D">>,
     Expired |-> <<"E","X","P","I","R","E","D">>,
     Valid |-> <<"V","A","L","I","D">>]

SortTokens ==
    [ExpiringSoon |-> <<"E","X","P","I","R","I","N","G","_","S","O","O","N">>,
     Newest |-> <<"N","E","W","E","S","T">>,
     PriceAsc |-> <<"P","R","I","C","E","_","A","S","C">>,
     PriceDesc |-> <<"P","R","I","C","E","_","D","E","S","C">>]

ScalarValueOk(k, x, t) ==
    CASE k = "isOrderAsk" ->
            t = (IF x THEN <<"t","r","u","e">> ELSE <<"f","a","l","s","e">>)
      [] k \in {"collection", "signer", "strategy", "currency"} -> IsHexOfBytes(t, x)
      [] k \in {"tokenId", "nonce"} -> t = x
      [] k \in {"price", "startTime"} -> IsDecimalOf(t, x)

\* C10: every present scalar filter is sent as one pair under its wire key,
\* the value written by its type: true or false, decimal for startTime and
\* price, hex for addresses, the given string for tokenId and nonce; an
\* absent one is not sent.
C10_ScalarsByType ==
    \A c \in SentOrders :
        \A k \in ScalarKeys :
            /\ Count(Params(c), k) = Len(FieldOf(req[c], k))
            /\ IsSome(FieldOf(req[c], k)) =>
                  ScalarValueOk(k, unwrap(FieldOf(req[c], k)), ValuesOf(Params(c), k)[1])

====
